---- MODULE Spec2Model ----
(***************************************************************************)
(* neo.core.segment.Segment: the nine child collections of a Segment, and  *)
(* the operations filter, take_*_by_unit / take_*_by_channelindex,          *)
(* construct_subsegment_by_unit and merge (src/neo/core/segment.py).        *)
(*                                                                         *)
(* A Segment holds nine Python lists.  A list is an object: the model keeps *)
(* a heap of lists and a Segment maps each container name to a list         *)
(* reference, so that two segments sharing one list is a state the model    *)
(* can express.  Records are values carrying an identity (id), a sequence   *)
(* of integers naming where the record was created: <<s, c, k>> is the     *)
(* record the caller appended to container c of segment s as its k-th      *)
(* element (a list never shrinks), <<0, s>> \o a \o b the record that       *)
(* s.merge made of its entry a and the incoming b, <<0, 0, k>> \o a the     *)
(* column slice of a made for segment k.                                   *)
(***************************************************************************)
EXTENDS Integers, Sequences, FiniteSets, TLC

VARIABLES
    segs,    \* constructed segments: slot -> [container name -> list reference]
    heap,    \* list reference -> the list's content (a sequence of records)
    made,    \* the number of records the caller appended directly
    op,      \* the operation called last
    self,    \* the segment it was called on (0: none)
    arg,     \* its argument
    pre,     \* the content of every segment when it was called
    ret,     \* what it returned
    exc      \* the exception it raised (kind "None": it returned)

vars == <<segs, heap, made, op, self, arg, pre, ret, exc>>

----------------------------------------------------------------------------
(* Bounds *)

\* records the caller appends directly
MaxAppends == 3
\* longest list a merge may produce
MaxLen == 3
\* longest sample buffer a record-level merge may produce
MaxSamples == 3
\* segments, the sub-segments included, where sub-segments are constructed
NSeg == 2
\* criterion pairs of a filter call
MaxCriteria == 2

----------------------------------------------------------------------------
(* Containers *)

\* the order of all_data
Containers ==
    << "epochs", "epocharrays", "events", "eventarrays", "analogsignals",
       "analogsignalarrays", "irregularlysampledsignals", "spikes",
       "spiketrains" >>

\* merge, first loop
PlainContainers ==
    << "epochs", "events", "analogsignals", "irregularlysampledsignals",
       "spikes", "spiketrains" >>

\* merge, second loop
ArrayContainers == << "epocharrays", "eventarrays", "analogsignalarrays" >>

Range(s) == { s[i] : i \in DOMAIN s }

ContainerSet == Range(Containers)

----------------------------------------------------------------------------
(* Optional values: None is <<>>, a present value x is <<x>> *)

None == << >>
Some(x) == << x >>
IsNone(o) == Len(o) = 0
Get(o) == o[1]

----------------------------------------------------------------------------
(* Records *)

\* obj.name
Name(r) == r.attrs["name"]

\* obj.shape: (samples, channels)
Shape(r) == << r.nsamp, Len(r.cols) >>

\* a child record: string attributes (name among them), annotations, the
\* sample buffer's sample count and columns, and the channel / unit fields
\* the selection methods read (channel_index 0 and unit 0: not set)
Rec(attrs, annotations, cols, channel_index, channel_indexes, unit) ==
    [ id |-> << >>,
      attrs |-> attrs,
      annotations |-> annotations,
      nsamp |-> 1,
      cols |-> cols,
      channel_index |-> channel_index,
      channel_indexes |-> channel_indexes,
      unit |-> unit ]

Named(n) == [ k \in { "name" } |-> n ]

NoAnnotations == [ k \in { } |-> "" ]

\* Unit.channel_indexes (unit 2 has none)
UnitChannelIndexes(u) == IF u = 1 THEN Some(<< 1, 5 >>) ELSE None

----------------------------------------------------------------------------
(* Exceptions *)

NoExc ==
    [ kind |-> "None", cause |-> "", container |-> "", name |-> "",
      shape |-> << >> ]

\* an exception that propagates as raised
Bare(kind) == [ NoExc EXCEPT !.kind = kind ]

\* raise AttributeError("%s. container=%s, obj.name=%s, shape=%s" % ...)
Enriched(cause, container, obj) ==
    [ kind |-> "AttributeError", cause |-> cause, container |-> container,
      name |-> Name(obj), shape |-> Shape(obj) ]

----------------------------------------------------------------------------
(* The state as the operations see it *)

\* no call is in progress: the caller has taken the last result
Idle == op = "idle"

\* the caller takes the result of the call
Return ==
    /\ ~Idle
    /\ op' = "idle"
    /\ self' = 0
    /\ arg' = << >>
    /\ pre' = << >>
    /\ ret' = << >>
    /\ exc' = NoExc
    /\ UNCHANGED << segs, heap, made >>

\* getattr(segment, container)
Coll(s, c) == heap[segs[s][c]]

\* the nine lists of segment s, by value
SegView(s) == [ c \in ContainerSet |-> Coll(s, c) ]

View == [ s \in DOMAIN segs |-> SegView(s) ]

\* Segment.__init__: nine new empty lists
NewSegment(k) == [ c \in ContainerSet |-> << k, c, 0 >> ]

EmptyView == [ c \in ContainerSet |-> << >> ]

\* the identities of the records in the collections of a segment
Ids(sv) == UNION { { sv[c][i].id : i \in DOMAIN sv[c] } : c \in ContainerSet }

\* position of a container in all_data
CIndex(c) == CHOOSE i \in DOMAIN Containers : Containers[i] = c

----------------------------------------------------------------------------
(* merge *)

\* the record-level merge of two same-named array records: concatenation
\* along the sample axis into a new record (made in segment s), failing
\* when the other axis differs
RecordMerge(entry, incoming, s, cause) ==
    IF Len(entry.cols) = Len(incoming.cols)
    THEN [ exc |-> "None",
           obj |-> [ entry EXCEPT !.id = << 0, s >> \o entry.id \o incoming.id,
                                  !.nsamp = entry.nsamp + incoming.nsamp ] ]
    ELSE [ exc |-> cause, obj |-> entry ]

\* a lookup that keeps the first entry of a name
LookupFirst(objs) ==
    [ n \in { Name(objs[i]) : i \in DOMAIN objs } |->
        [ tag |-> "int",
          val |-> CHOOSE i \in DOMAIN objs :
                     /\ Name(objs[i]) = n
                     /\ \A j \in DOMAIN objs : Name(objs[j]) = n => i <= j ] ]

\* lookup = dict((obj.name, i) for i, obj in enumerate(objs)): a later
\* entry of the same name overwrites an earlier one
Lookup(objs) ==
    [ n \in { Name(objs[i]) : i \in DOMAIN objs } |->
        [ tag |-> "int",
          val |-> CHOOSE i \in DOMAIN objs :
                     /\ Name(objs[i]) = n
                     /\ \A j \in DOMAIN objs : Name(objs[j]) = n => j <= i ] ]

\* lookup[obj.name] = obj
Register(lookup, obj) ==
    (Name(obj) :> [ tag |-> "obj", val |-> 0 ]) @@ lookup

\* an extend that skips the records self already holds
ExtendPlainDedup(sv, ov) ==
    [ c \in ContainerSet |->
        IF c \in Range(PlainContainers)
        THEN sv[c] \o SelectSeq(ov[c], LAMBDA x : x \notin Range(sv[c]))
        ELSE sv[c] ]

\* getattr(self, container).extend(getattr(other, container)), six times
ExtendPlain(sv, ov) ==
    [ c \in ContainerSet |->
        IF c \in Range(PlainContainers) THEN sv[c] \o ov[c] ELSE sv[c] ]

\* the body of the inner loop of merge for one incoming record
MergeStep(objs, lookup, obj, container, s, cause) ==
    IF Name(obj) \in DOMAIN lookup
    THEN LET ind == lookup[Name(obj)] IN
         IF ind.tag # "int"
         THEN \* a list indexed by a record
              [ objs |-> objs, lookup |-> lookup, exc |-> Bare("TypeError") ]
         ELSE LET m == RecordMerge(objs[ind.val], obj, s, cause) IN
              IF m.exc = "None"
              THEN [ objs |-> [ objs EXCEPT ![ind.val] = m.obj ],
                     lookup |-> lookup, exc |-> NoExc ]
              ELSE IF m.exc = "AttributeError"
              THEN [ objs |-> objs, lookup |-> lookup,
                     exc |-> Enriched(m.exc, container, obj) ]
              ELSE [ objs |-> objs, lookup |-> lookup, exc |-> Bare(m.exc) ]
    ELSE [ objs |-> Append(objs, obj), lookup |-> Register(lookup, obj),
           exc |-> NoExc ]

RECURSIVE MergeLoop(_, _, _, _, _, _)
\* for obj in getattr(other, container): ...
MergeLoop(objs, lookup, incoming, container, s, cause) ==
    IF incoming = << >>
    THEN [ objs |-> objs, exc |-> NoExc ]
    ELSE LET r == MergeStep(objs, lookup, Head(incoming), container, s, cause)
         IN IF r.exc.kind # "None"
            THEN [ objs |-> r.objs, exc |-> r.exc ]
            ELSE MergeLoop(r.objs, r.lookup, Tail(incoming), container, s,
                           cause)

RECURSIVE MergeArrays(_, _, _, _, _)
\* for container in ("epocharrays", "eventarrays", "analogsignalarrays")
MergeArrays(k, sv, ov, s, cause) ==
    IF k > Len(ArrayContainers)
    THEN [ seg |-> sv, exc |-> NoExc ]
    ELSE LET c == ArrayContainers[k]
             r == MergeLoop(sv[c], Lookup(sv[c]), ov[c], c, s, cause)
             sv2 == [ sv EXCEPT ![c] = r.objs ]
         IN IF r.exc.kind # "None"
            THEN [ seg |-> sv2, exc |-> r.exc ]
            ELSE MergeArrays(k + 1, sv2, ov, s, cause)

\* a merge that restores self when it fails
merge_atomic(sv, ov, s, cause) ==
    LET r == MergeArrays(1, ExtendPlain(sv, ov), ov, s, cause)
    IN IF r.exc.kind = "None" THEN r ELSE [ seg |-> sv, exc |-> r.exc ]

\* Segment.merge on the contents of self (segment s) and other
merge(sv, ov, s, cause) ==
    MergeArrays(1, ExtendPlain(sv, ov), ov, s, cause)

\* what a failing record-level merge raises
Causes == { "AttributeError", "ValueError" }

\* the heap after the lists of segment s took the contents nv
Store(s, nv) ==
    [ ref \in DOMAIN heap |->
        IF \E c \in ContainerSet : segs[s][c] = ref
        THEN nv[CHOOSE c \in ContainerSet : segs[s][c] = ref]
        ELSE heap[ref] ]

\* s.merge(o)
Merge(s, o, cause) ==
    /\ Idle
    /\ s # o
    /\ \A c \in ContainerSet : Len(Coll(s, c)) + Len(Coll(o, c)) <= MaxLen
    /\ \E r \in { merge(SegView(s), SegView(o), s, cause) } :
       /\ \A c \in ContainerSet : \A i \in DOMAIN r.seg[c] :
              r.seg[c][i].nsamp <= MaxSamples
       /\ heap' = Store(s, r.seg)
       /\ exc' = r.exc
    /\ op' = "merge"
    /\ self' = s
    /\ arg' = << o >>
    /\ pre' = View
    /\ ret' = << >>
    /\ UNCHANGED << segs, made >>

----------------------------------------------------------------------------
(* direct appends by the caller *)

\* segment.<container>.append(record), the record a new one
AppendRecord(s, c, t) ==
    /\ Idle
    /\ made < MaxAppends
    /\ Len(Coll(s, c)) < MaxLen
    /\ heap' = [ heap EXCEPT ![segs[s][c]] =
                   Append(@, [ t EXCEPT !.id = << s, CIndex(c), Len(Coll(s, c)) + 1 >> ]) ]
    /\ made' = made + 1
    /\ op' = "append"
    /\ self' = s
    /\ arg' = << c >>
    /\ pre' = View
    /\ ret' = << >>
    /\ exc' = NoExc
    /\ UNCHANGED segs

\* the records a caller may append to a container, in the merge scenarios
MergeTemplates(c) ==
    IF c = "events" THEN { Rec(Named("e"), NoAnnotations, << >>, 0, None, 0) }
    ELSE IF c = "epocharrays"
    THEN { Rec(Named("a"), NoAnnotations, << 1 >>, 0, None, 0) }
    ELSE IF c = "analogsignalarrays"
    THEN { Rec(Named("a"), NoAnnotations, << 1, 2 >>, 0, Some(<< 5, 3 >>), 0),
           Rec(Named("a"), NoAnnotations, << 1 >>, 0, Some(<< 5 >>), 0) }
    ELSE { }

----------------------------------------------------------------------------
(* selection *)

Ok(v) == [ ret |-> v, exc |-> NoExc ]
Raise(kind) == [ ret |-> << >>, exc |-> Bare(kind) ]

\* take_spikes_by_unit without its test for None: "x in None" raises
take_spikes_by_unit_unguarded(sv, unit_list) ==
    IF IsNone(unit_list)
    THEN IF sv["spikes"] = << >> THEN Ok(<< >>) ELSE Raise("TypeError")
    ELSE Ok(SelectSeq(sv["spikes"], LAMBDA x : x.unit \in Range(Get(unit_list))))

take_spikes_by_unit(sv, unit_list) ==
    IF IsNone(unit_list) THEN Ok(<< >>)
    ELSE Ok(SelectSeq(sv["spikes"], LAMBDA x : x.unit \in Range(Get(unit_list))))

take_spiketrains_by_unit(sv, unit_list) ==
    IF IsNone(unit_list) THEN Ok(<< >>)
    ELSE Ok(SelectSeq(sv["spiketrains"],
                      LAMBDA x : x.unit \in Range(Get(unit_list))))

take_analogsignal_by_channelindex(sv, channel_indexes) ==
    IF IsNone(channel_indexes) THEN Ok(<< >>)
    ELSE Ok(SelectSeq(sv["analogsignals"],
                      LAMBDA x : x.channel_index \in Range(Get(channel_indexes))))

RECURSIVE ChannelIndexesOf(_)
\* for unit in unit_list: if unit.channel_indexes is not None: extend
ChannelIndexesOf(units) ==
    IF units = << >> THEN << >>
    ELSE ( IF IsNone(UnitChannelIndexes(Head(units))) THEN << >>
           ELSE Get(UnitChannelIndexes(Head(units))) )
         \o ChannelIndexesOf(Tail(units))

take_analogsignal_by_unit(sv, unit_list) ==
    IF IsNone(unit_list) THEN Ok(<< >>)
    ELSE take_analogsignal_by_channelindex(sv, Some(ChannelIndexesOf(Get(unit_list))))

\* np.in1d(a, b): for each element of a, whether it is in b
In1d(a, b) == [ i \in DOMAIN a |-> a[i] \in Range(b) ]

\* the elements of seq at the positions where mask holds, in order
Pick(seq, mask) ==
    LET idx == SelectSeq([ i \in DOMAIN seq |-> i ], LAMBDA i : mask[i])
    IN [ j \in DOMAIN idx |-> seq[idx[j]] ]

\* sigarr[:, ind]: a new record (made for segment k, 0: for the caller)
\* holding all samples of the columns ind selects
SliceColumns(sigarr, ind, k) ==
    [ sigarr EXCEPT !.id = << 0, 0, k >> \o @,
                    !.cols = Pick(@, ind),
                    !.channel_indexes = Some(Pick(Get(@), ind)) ]

\* a slicing that leaves out the arrays none of whose channels is asked for
take_slice_skipping_unmatched(sv, channel_indexes, k) ==
    IF IsNone(channel_indexes) THEN Ok(<< >>)
    ELSE LET arrs == SelectSeq(sv["analogsignalarrays"],
                 LAMBDA x : /\ ~IsNone(x.channel_indexes)
                            /\ Range(Get(x.channel_indexes))
                                   \cap Range(Get(channel_indexes)) # { })
         IN Ok([ i \in DOMAIN arrs |->
                   SliceColumns(arrs[i],
                                In1d(Get(arrs[i].channel_indexes),
                                     Get(channel_indexes)), k) ])

take_slice_of_analogsignalarray_by_channelindex(sv, channel_indexes, k) ==
    IF IsNone(channel_indexes) THEN Ok(<< >>)
    ELSE LET arrs == SelectSeq(sv["analogsignalarrays"],
                               LAMBDA x : ~IsNone(x.channel_indexes))
         IN Ok([ i \in DOMAIN arrs |->
                   SliceColumns(arrs[i],
                                In1d(Get(arrs[i].channel_indexes),
                                     Get(channel_indexes)), k) ])

take_slice_of_analogsignalarray_by_unit(sv, unit_list, k) ==
    IF IsNone(unit_list) THEN Ok(<< >>)
    ELSE take_slice_of_analogsignalarray_by_channelindex(
             sv, Some(ChannelIndexesOf(Get(unit_list))), k)

\* a call that reads segment s and returns r
Query(name, s, a, r) ==
    /\ Idle
    /\ op' = name
    /\ self' = s
    /\ arg' = << a >>
    /\ pre' = View
    /\ ret' = r.ret
    /\ exc' = r.exc
    /\ UNCHANGED << segs, heap, made >>

\* the arguments the selection methods are called with
UnitLists == { None, Some(<< 1 >>), Some(<< 2, 1 >>) }
ChannelLists == { None, Some(<< >>), Some(<< 5, 1, 5 >>) }

TakeSpikesByUnit ==
    \E s \in DOMAIN segs, a \in UnitLists :
        Query("take_spikes_by_unit", s, a, take_spikes_by_unit(SegView(s), a))

TakeSpiketrainsByUnit ==
    \E s \in DOMAIN segs, a \in UnitLists :
        Query("take_spiketrains_by_unit", s, a,
              take_spiketrains_by_unit(SegView(s), a))

TakeAnalogsignalByUnit ==
    \E s \in DOMAIN segs, a \in UnitLists :
        Query("take_analogsignal_by_unit", s, a,
              take_analogsignal_by_unit(SegView(s), a))

TakeAnalogsignalByChannelindex ==
    \E s \in DOMAIN segs, a \in ChannelLists :
        Query("take_analogsignal_by_channelindex", s, a,
              take_analogsignal_by_channelindex(SegView(s), a))

TakeSliceByUnit ==
    \E s \in DOMAIN segs, a \in UnitLists :
        Query("take_slice_of_analogsignalarray_by_unit", s, a,
              take_slice_of_analogsignalarray_by_unit(SegView(s), a, 0))

TakeSliceByChannelindex ==
    \E s \in DOMAIN segs, a \in ChannelLists :
        Query("take_slice_of_analogsignalarray_by_channelindex", s, a,
              take_slice_of_analogsignalarray_by_channelindex(SegView(s), a, 0))

----------------------------------------------------------------------------
(* filter *)

\* sum((self.epochs, self.epocharrays, ...), [])
all_data(sv) ==
    sv["epochs"] \o sv["epocharrays"] \o sv["events"] \o sv["eventarrays"]
    \o sv["analogsignals"] \o sv["analogsignalarrays"]
    \o sv["irregularlysampledsignals"] \o sv["spikes"] \o sv["spiketrains"]

\* a loop body with two independent tests in place of if / elif
AppendedTwice(obj, key, value) ==
    ( IF key \in DOMAIN obj.attrs /\ obj.attrs[key] = value
      THEN << obj >> ELSE << >> )
    \o ( IF key \in DOMAIN obj.annotations /\ obj.annotations[key] = value
         THEN << obj >> ELSE << >> )

\* what the body of the inner loop of filter appends for one record
Appended(obj, key, value) ==
    IF key \in DOMAIN obj.attrs /\ obj.attrs[key] = value
    THEN << obj >>
    ELSE IF key \in DOMAIN obj.annotations /\ obj.annotations[key] = value
    THEN << obj >>
    ELSE << >>

RECURSIVE FilterScan(_, _, _)
\* for obj in self.all_data: ...
FilterScan(objs, key, value) ==
    IF objs = << >> THEN << >>
    ELSE Appended(Head(objs), key, value) \o FilterScan(Tail(objs), key, value)

RECURSIVE filter(_, _)
\* for key, value in kwargs.items(): ...
filter(sv, criteria) ==
    IF criteria = << >> THEN << >>
    ELSE FilterScan(all_data(sv), Head(criteria)[1], Head(criteria)[2])
         \o filter(sv, Tail(criteria))

FilterKeys == { "name", "y" }
FilterValues == { "a", "b" }

\* keyword arguments: pairs with distinct keys, in the order supplied
RECURSIVE CriteriaOfLen(_)
CriteriaOfLen(n) ==
    IF n = 0 THEN { << >> }
    ELSE { Append(cs, << k, v >>) :
             cs \in CriteriaOfLen(n - 1), k \in FilterKeys, v \in FilterValues }

Criteria ==
    { cs \in UNION { CriteriaOfLen(n) : n \in 0 .. MaxCriteria } :
        \A i, j \in DOMAIN cs : i # j => cs[i][1] # cs[j][1] }

Filter ==
    \E s \in DOMAIN segs, cs \in Criteria :
        Query("filter", s, cs, Ok(filter(SegView(s), cs)))

----------------------------------------------------------------------------
(* construct_subsegment_by_unit *)

Derived == { "analogsignals", "spiketrains", "analogsignalarrays" }

\* a sub-segment that holds copies of the selected records
construct_subsegment_copying(sv, unit_list, k) ==
    [ c \in ContainerSet |->
        IF c = "analogsignals"
        THEN LET r == take_analogsignal_by_unit(sv, unit_list).ret
             IN [ i \in DOMAIN r |-> [ r[i] EXCEPT !.id = << 0, 0, k >> \o @ ] ]
        ELSE IF c = "spiketrains"
        THEN LET r == take_spiketrains_by_unit(sv, unit_list).ret
             IN [ i \in DOMAIN r |-> [ r[i] EXCEPT !.id = << 0, 0, k >> \o @ ] ]
        ELSE IF c = "analogsignalarrays"
        THEN take_slice_of_analogsignalarray_by_unit(sv, unit_list, k).ret
        ELSE << >> ]

\* the contents of the segment construct_subsegment_by_unit returns
construct_subsegment_by_unit(sv, unit_list, k) ==
    [ c \in ContainerSet |->
        IF c = "analogsignals"
        THEN take_analogsignal_by_unit(sv, unit_list).ret
        ELSE IF c = "spiketrains"
        THEN take_spiketrains_by_unit(sv, unit_list).ret
        ELSE IF c = "analogsignalarrays"
        THEN take_slice_of_analogsignalarray_by_unit(sv, unit_list, k).ret
        ELSE << >> ]

\* a sub-segment whose spiketrains attribute is the source's own list
SubsegmentRefsAliased(s, k) ==
    [ c \in ContainerSet |->
        IF c = "spiketrains" THEN segs[s][c]
        ELSE IF c \in Derived THEN << k, c, 1 >> ELSE << k, c, 0 >> ]

\* the lists of the new segment: those of Segment(), three of them replaced
\* by the lists the take_* methods built
SubsegmentRefs(s, k) ==
    [ c \in ContainerSet |->
        IF c \in Derived THEN << k, c, 1 >> ELSE << k, c, 0 >> ]

\* s.construct_subsegment_by_unit(unit_list), the result kept in slot k
Construct(s, unit_list) ==
    LET k == Cardinality(DOMAIN segs) + 1 IN
    /\ Idle
    /\ k <= NSeg
    /\ \E refs \in { SubsegmentRefs(s, k) },
          nv \in { construct_subsegment_by_unit(SegView(s), unit_list, k) } :
          /\ segs' = (k :> refs) @@ segs
          /\ heap' = [ ref \in DOMAIN heap \cup Range(refs) |->
                         IF ref \in DOMAIN heap THEN heap[ref]
                         ELSE nv[CHOOSE c \in ContainerSet : refs[c] = ref] ]
    /\ op' = "construct_subsegment_by_unit"
    /\ self' = s
    /\ arg' = << unit_list >>
    /\ pre' = View
    /\ ret' = << k >>
    /\ exc' = NoExc
    /\ UNCHANGED made


\* ... in the ownership scenarios
OwnTemplates(c) ==
    IF c = "spiketrains"
    THEN { Rec(Named("t"), NoAnnotations, << >>, 0, None, 1) }
    ELSE { }

\* ... in the sub-segment scenarios
SubTemplates(c) ==
    IF c = "events" THEN { Rec(Named("e"), NoAnnotations, << >>, 0, None, 0) }
    ELSE IF c = "spiketrains"
    THEN { Rec(Named("t"), NoAnnotations, << >>, 0, None, 1),
           Rec(Named("t"), NoAnnotations, << >>, 0, None, 2) }
    ELSE IF c = "analogsignals"
    THEN { Rec(Named("s"), NoAnnotations, << 1 >>, 1, None, 0) }
    ELSE IF c = "analogsignalarrays"
    THEN { Rec(Named("a"), NoAnnotations, << 1, 2, 3 >>, 0, Some(<< 5, 3, 1 >>), 0) }
    ELSE { }

\* ... in the filter scenarios
FilterTemplates(c) ==
    IF c = "events"
    THEN { Rec(Named("a"), [ k \in { "name", "y" } |-> IF k = "y" THEN "b" ELSE "a" ],
               << >>, 0, None, 0) }
    ELSE IF c = "spikes"
    THEN { Rec(Named("b"), [ k \in { "name" } |-> "a" ], << >>, 0, None, 1) }
    ELSE { }

\* ... in the selection scenarios
SelectTemplates(c) ==
    IF c = "spikes" THEN { Rec(Named("k"), NoAnnotations, << >>, 0, None, 1) }
    ELSE IF c = "spiketrains"
    THEN { Rec(Named("t"), NoAnnotations, << >>, 0, None, 2) }
    ELSE IF c = "analogsignals"
    THEN { Rec(Named("s"), NoAnnotations, << 1 >>, 5, None, 0) }
    ELSE IF c = "analogsignalarrays"
    THEN { Rec(Named("a"), NoAnnotations, << 1, 2, 3 >>, 0, Some(<< 5, 3, 1 >>), 0),
           Rec(Named("n"), NoAnnotations, << 1, 2 >>, 0, None, 0) }
    ELSE { }

----------------------------------------------------------------------------

\* the segments of B constructed, nothing appended, no call made
Start(B) ==
    /\ segs = [ s \in B |-> NewSegment(s) ]
    /\ heap = [ ref \in { << s, c, 0 >> : s \in B, c \in ContainerSet } |-> << >> ]
    /\ made = 0
    /\ op = "idle"
    /\ self = 0
    /\ arg = << >>
    /\ pre = << >>
    /\ ret = << >>
    /\ exc = NoExc

\* two segments, to merge one into the other
Init == Start({ 1, 2 })

\* one segment, to derive sub-segments from
InitOne == Start({ 1 })

AppendMerge ==
    \E s \in DOMAIN segs, c \in ContainerSet :
        \E t \in MergeTemplates(c) : AppendRecord(s, c, t)

DoMerge ==
    \E s \in DOMAIN segs, o \in DOMAIN segs, cause \in Causes :
        Merge(s, o, cause)

NextMerge == AppendMerge \/ DoMerge \/ Return

\* appends and merges
SpecMerge == Init /\ [][NextMerge]_vars

AppendOwn ==
    \E s \in DOMAIN segs, c \in ContainerSet :
        \E t \in OwnTemplates(c) : AppendRecord(s, c, t)

DoConstruct ==
    \E s \in DOMAIN segs, a \in UnitLists : Construct(s, a)

NextOwn == AppendOwn \/ DoMerge \/ DoConstruct \/ Return

\* appends, merges and sub-segments
SpecOwn == InitOne /\ [][NextOwn]_vars

AppendSub ==
    \E s \in DOMAIN segs, c \in ContainerSet :
        \E t \in SubTemplates(c) : AppendRecord(s, c, t)

NextSub == AppendSub \/ DoConstruct \/ Return

\* appends and sub-segments
SpecSub == InitOne /\ [][NextSub]_vars

AppendFilter ==
    \E s \in DOMAIN segs, c \in ContainerSet :
        \E t \in FilterTemplates(c) : AppendRecord(s, c, t)

NextFilter == AppendFilter \/ DoMerge \/ Filter \/ Return

\* appends, merges and filter
SpecFilter == Init /\ [][NextFilter]_vars

AppendSelect ==
    \E s \in DOMAIN segs, c \in ContainerSet :
        \E t \in SelectTemplates(c) : AppendRecord(s, c, t)

NextSelect ==
    \/ AppendSelect
    \/ TakeSpikesByUnit
    \/ TakeSpiketrainsByUnit
    \/ TakeAnalogsignalByUnit
    \/ TakeAnalogsignalByChannelindex
    \/ TakeSliceByUnit
    \/ TakeSliceByChannelindex
    \/ Return

\* appends and the selection methods
SpecSelect == Init /\ [][NextSelect]_vars

----------------------------------------------------------------------------
(* What the claims speak of after a call of merge *)

IsMerge == op = "merge"
\* self and other as they were when merge was called; self as it is now
S == pre[self]
O == pre[arg[1]]
Post == SegView(self)

NamesOf(objs) == { Name(objs[i]) : i \in DOMAIN objs }
WithName(objs, n) == SelectSeq(objs, LAMBDA x : Name(x) = n)
LastPos(objs, n) ==
    CHOOSE i \in DOMAIN objs :
        /\ Name(objs[i]) = n
        /\ \A j \in DOMAIN objs : Name(objs[j]) = n => j <= i

RECURSIVE FoldMerge(_, _, _)
\* entry.merge(i1).merge(i2)... for the incoming records i1, i2, ...
FoldMerge(entry, incoming, s) ==
    IF incoming = << >> THEN entry
    ELSE FoldMerge(RecordMerge(entry, Head(incoming), s, "").obj,
                   Tail(incoming), s)

\* a named-array collection after the incoming records were all processed
\* without failure: the last entry of each incoming name replaced, the
\* records of new names appended
Processed(base, incoming, s) ==
    [ i \in DOMAIN base |->
        IF i = LastPos(base, Name(base[i]))
        THEN FoldMerge(base[i], WithName(incoming, Name(base[i])), s)
        ELSE base[i] ]
    \o SelectSeq(incoming, LAMBDA x : Name(x) \notin NamesOf(base))

\* incoming record j fails against the collection as it is after the
\* records before it: its name was registered by an earlier incoming
\* record, or its shape does not fit the entry of its name
FailsAt(base, incoming, j, s) ==
    LET obj == incoming[j]
        cur == Processed(base, SubSeq(incoming, 1, j - 1), s)
    IN IF Name(obj) \in NamesOf(base)
       THEN Len(cur[LastPos(base, Name(obj))].cols) # Len(obj.cols)
       ELSE Name(obj) \in NamesOf(SubSeq(incoming, 1, j - 1))

----------------------------------------------------------------------------
(* C1: a record of other whose name is new to self is appended and its name
   registered, so that a later record of other with that name is merged
   into the appended entry: when other holds two or more records of a name
   absent from self (and every same-named pair of records has compatible
   shapes), merge completes and self gains exactly one entry of that name. *)
C1_LaterSameNameMerged ==
    IsMerge =>
        \A c \in Range(ArrayContainers) :
            \A n \in NamesOf(O[c]) \ NamesOf(S[c]) :
                ( /\ Len(WithName(O[c], n)) >= 2
                  /\ \A d \in Range(ArrayContainers) :
                        \A x \in Range(S[d]) \cup Range(O[d]) :
                            \A y \in Range(O[d]) :
                                Name(x) = Name(y) => Len(x.cols) = Len(y.cols) )
                => ( /\ exc.kind = "None"
                     /\ Len(WithName(Post[c], n)) = 1 )

(* C2: when the record-level merge of a same-named entry fails, whatever
   the cause, the failure that reaches the caller of merge is the enriched
   one: it carries the cause, the collection name, and the incoming
   record's name and shape. *)
C2_FailureEnriched ==
    (IsMerge /\ exc.kind \notin { "None", "TypeError" }) =>
        /\ exc.cause \in Causes
        /\ exc.container \in Range(ArrayContainers)
        /\ \E x \in Range(O[exc.container]) :
              exc.name = Name(x) /\ exc.shape = Shape(x)

(* C4: when merge completes, in each named-array collection the entry at
   the last position of a name that other also holds is replaced by the
   result of merging other's records of that name into it, every other
   entry of self is the same record at the same position, and the
   collection grows only by the records of names new to self; with one
   record named n on each side there is one record named n afterwards. *)
C4_LastSameNameReplaced ==
    (IsMerge /\ exc.kind = "None") =>
        \A c \in Range(ArrayContainers) :
            /\ Len(Post[c]) =
                  Len(S[c]) + Len(SelectSeq(O[c], LAMBDA x : Name(x) \notin NamesOf(S[c])))
            /\ \A i \in DOMAIN S[c] :
                  LET n == Name(S[c][i]) IN
                  IF i = LastPos(S[c], n) /\ n \in NamesOf(O[c])
                  THEN Post[c][i] = FoldMerge(S[c][i], WithName(O[c], n), self)
                  ELSE Post[c][i] = S[c][i]
            /\ \A n \in NamesOf(S[c]) :
                  (Len(WithName(S[c], n)) = 1 /\ Len(WithName(O[c], n)) = 1)
                  => Len(WithName(Post[c], n)) = 1

\* self holds two entries of a name, other one, and the merge completed
C4_Witness ==
    /\ IsMerge
    /\ exc.kind = "None"
    /\ \E c \in Range(ArrayContainers) : \E n \in NamesOf(O[c]) :
          /\ Len(WithName(S[c], n)) = 2
          /\ Post[c][LastPos(S[c], n)] # S[c][LastPos(S[c], n)]
          /\ Post[c][LastPos(S[c], n)].nsamp = 2

(* C5: after self.merge(other), each plain collection of self is its value
   before the merge followed by the records of other's collection, in
   other's order and without deduplication. *)
C5_PlainExtended ==
    IsMerge =>
        \A c \in Range(PlainContainers) : Post[c] = S[c] \o O[c]

\* a merge of a segment holding a record self holds already
C5_Witness ==
    /\ IsMerge
    /\ \E c \in Range(PlainContainers) :
          /\ Range(S[c]) \cap Range(O[c]) # { }
          /\ Len(Post[c]) = 2

(* C10: a merge that raises while processing a named-array collection
   leaves self changed: the plain collections hold other's records, the
   named-array collections before the failing one are processed in full,
   the failing one holds the effect of the records before the failing
   record, with the entry of the failing record as it was, and the
   collections after it are untouched. *)
C10_NotAtomic ==
    (IsMerge /\ exc.kind # "None") =>
        /\ \A c \in Range(PlainContainers) : Post[c] = S[c] \o O[c]
        /\ \E k \in DOMAIN ArrayContainers :
              LET c == ArrayContainers[k] IN
              \E j \in DOMAIN O[c] :
                  /\ FailsAt(S[c], O[c], j, self)
                  /\ Post[c] = Processed(S[c], SubSeq(O[c], 1, j - 1), self)
                  /\ \A m \in DOMAIN ArrayContainers :
                        LET d == ArrayContainers[m] IN
                        /\ m < k => Post[d] = Processed(S[d], O[d], self)
                        /\ m > k => Post[d] = S[d]

\* a failing merge after which self holds records of other, plain and named
C10_Witness ==
    /\ IsMerge
    /\ exc.kind # "None"
    /\ \E c \in Range(PlainContainers) : Len(Post[c]) > Len(S[c])
    /\ \E c \in Range(ArrayContainers) : Post[c] # S[c]

----------------------------------------------------------------------------
(* Ownership *)

\* the records that segments s and t both hold, in the state or in a view
SharedBy(s, t) == Ids(SegView(s)) \cap Ids(SegView(t))
SharedIn(v, s, t) == Ids(v[s]) \cap Ids(v[t])

(* C3, as stated: no record is a member of the collections of two distinct
   segments at the same time. *)
C3_Exclusive ==
    \A s \in DOMAIN segs : \A t \in DOMAIN segs \ { s } : SharedBy(s, t) = { }

(* C3, amended: a direct append of a new record shares nothing (the record
   is in no other segment, and the records two segments share are those
   they shared before); merge and construct_subsegment_by_unit share
   records instead of moving them: after self.merge(other) every record of
   other's plain collections is in self and still in other, and the spike
   trains and analog signals of a sub-segment are records of its source. *)
C3_SharedByMergeAndConstruct ==
    /\ op = "append" =>
          /\ \A s \in DOMAIN segs : \A t \in DOMAIN segs \ { s } :
                SharedBy(s, t) = SharedIn(pre, s, t)
          /\ \A t \in DOMAIN segs \ { self } :
                Coll(self, arg[1])[Len(Coll(self, arg[1]))].id \notin Ids(SegView(t))
    /\ IsMerge =>
          \A c \in Range(PlainContainers) :
              /\ Range(O[c]) \subseteq Range(Coll(self, c))
              /\ Coll(arg[1], c) = O[c]
    /\ op = "construct_subsegment_by_unit" =>
          \A c \in { "spiketrains", "analogsignals" } :
              /\ Range(Coll(ret[1], c)) \subseteq Range(Coll(self, c))
              /\ \A x \in Range(pre[self][c]) :
                    ( /\ ~IsNone(arg[1])
                      /\ c = "spiketrains"
                      /\ x.unit \in Range(Get(arg[1])) )
                    => x \in Range(Coll(ret[1], c))

\* a merge after which self and other hold a record in common
C3_Witness ==
    /\ IsMerge
    /\ SharedBy(self, arg[1]) # { }
    /\ SharedIn(pre, self, arg[1]) = { }

----------------------------------------------------------------------------
(* filter *)

Count(seq, x) == Len(SelectSeq(seq, LAMBDA y : y = x))

\* a record matches a criterion pair by its attribute or by its annotation
Match(x, pair) ==
    \/ pair[1] \in DOMAIN x.attrs /\ x.attrs[pair[1]] = pair[2]
    \/ pair[1] \in DOMAIN x.annotations /\ x.annotations[pair[1]] = pair[2]

\* the number of pairs of cs that x matches
Matching(x, cs) == Cardinality({ i \in DOMAIN cs : Match(x, cs[i]) })

RECURSIVE PerPair(_, _)
\* for each pair in order, the matching entries of ad in order
PerPair(ad, cs) ==
    IF cs = << >> THEN << >>
    ELSE SelectSeq(ad, LAMBDA x : Match(x, Head(cs))) \o PerPair(ad, Tail(cs))

(* C6, as stated: a record of all_data matching k of the supplied pairs
   occurs exactly k times in the result of filter. *)
C6_OncePerPair ==
    op = "filter" =>
        \A x \in Range(all_data(pre[self])) :
            Count(ret, x) = Matching(x, arg[1])

(* C6, amended: filter returns, for each pair in the order supplied, the
   entries of all_data that match it, in all_data order, each entry once
   per pair; a record matching k pairs occurs k times for each of its
   occurrences in all_data, and empty criteria give an empty result. *)
C6_OncePerPairAndOccurrence ==
    op = "filter" =>
        /\ exc = NoExc
        /\ ret = PerPair(all_data(pre[self]), arg[1])
        /\ Range(ret) \subseteq Range(all_data(pre[self]))
        /\ \A x \in Range(all_data(pre[self])) :
              Count(ret, x) = Matching(x, arg[1]) * Count(all_data(pre[self]), x)
        /\ arg[1] = << >> => ret = << >>

\* a record that occurs twice in all_data and matches both pairs
C6_Witness ==
    /\ op = "filter"
    /\ \E x \in Range(all_data(pre[self])) :
          /\ Count(all_data(pre[self]), x) = 2
          /\ Matching(x, arg[1]) = 2
          /\ Count(ret, x) = 4

----------------------------------------------------------------------------
(* selection *)

TakeOps ==
    { "take_spikes_by_unit", "take_spiketrains_by_unit",
      "take_analogsignal_by_unit", "take_analogsignal_by_channelindex",
      "take_slice_of_analogsignalarray_by_unit",
      "take_slice_of_analogsignalarray_by_channelindex" }

Increasing(seq) == \A i, j \in DOMAIN seq : i < j => seq[i] < seq[j]

(* C7: take_slice_of_analogsignalarray_by_channelindex, for an argument that
   is not None, returns in analogsignalarrays order one new record per
   array whose channel_indexes is not None and none for the others; the new
   record keeps the columns whose channel index is a member of the
   argument, in the array's order, with all samples; the segment and its
   arrays are as before. *)
C7_SliceByChannelindex ==
    (op = "take_slice_of_analogsignalarray_by_channelindex" /\ ~IsNone(arg[1])) =>
        LET arrs == SelectSeq(pre[self]["analogsignalarrays"],
                              LAMBDA x : ~IsNone(x.channel_indexes))
            asked == Range(Get(arg[1]))
        IN /\ exc = NoExc
           /\ View = pre
           /\ Len(ret) = Len(arrs)
           /\ \A i \in DOMAIN arrs :
                 /\ \A s \in DOMAIN segs : ret[i].id \notin Ids(SegView(s))
                 /\ ret[i].nsamp = arrs[i].nsamp
                 /\ Increasing(ret[i].cols)
                 /\ Range(ret[i].cols) =
                       { arrs[i].cols[p] : p \in
                           { q \in DOMAIN arrs[i].cols :
                               Get(arrs[i].channel_indexes)[q] \in asked } }

\* channels 5, 3, 1 asked for 5, 1, 5, beside an array without channel_indexes
C7_Witness ==
    /\ op = "take_slice_of_analogsignalarray_by_channelindex"
    /\ arg[1] = Some(<< 5, 1, 5 >>)
    /\ Len(pre[self]["analogsignalarrays"]) = 2
    /\ Len(ret) = 1
    /\ ret[1].cols = << 1, 3 >>

(* C9: each of the six selection methods, called with None, returns an
   empty sequence, raises nothing and leaves the segments as they were. *)
C9_NoneSelectsNothing ==
    (op \in TakeOps /\ IsNone(arg[1])) =>
        /\ ret = << >>
        /\ exc = NoExc
        /\ View = pre

\* None given to a segment that holds what the method would select from
C9_Witness ==
    /\ op = "take_spikes_by_unit"
    /\ IsNone(arg[1])
    /\ pre[self]["spikes"] # << >>
    /\ pre[self]["analogsignalarrays"] # << >>

----------------------------------------------------------------------------
(* sub-segments *)

\* no list is an attribute of two segments, or two attributes of one
RefsDistinct ==
    \A s, t \in DOMAIN segs : \A c, d \in ContainerSet :
        << s, c >> # << t, d >> => segs[s][c] # segs[t][d]

(* C8: construct_subsegment_by_unit returns a new segment whose
   analogsignals, spiketrains and analogsignalarrays are what the three
   take_*_by_unit methods return on the source and whose other collections
   are empty; the source is unchanged; no list of the new segment is a list
   of the source, so that appending to one changes no other; the spike
   trains and analog signals in it are records of the source. *)
C8_Subsegment ==
    /\ RefsDistinct
    /\ op = "append" =>
          \A s \in DOMAIN segs : \A c \in ContainerSet :
              << s, c >> # << self, arg[1] >> => Coll(s, c) = pre[s][c]
    /\ op = "construct_subsegment_by_unit" =>
          LET k == ret[1]
              src == pre[self]
              units == IF IsNone(arg[1]) THEN { } ELSE Range(Get(arg[1]))
          IN /\ exc = NoExc
             /\ k \notin DOMAIN pre
             /\ \A s \in DOMAIN pre : SegView(s) = pre[s]
             /\ Coll(k, "analogsignals") = take_analogsignal_by_unit(src, arg[1]).ret
             /\ Coll(k, "spiketrains") = take_spiketrains_by_unit(src, arg[1]).ret
             /\ Coll(k, "analogsignalarrays") =
                   take_slice_of_analogsignalarray_by_unit(src, arg[1], k).ret
             /\ Coll(k, "spiketrains") =
                   SelectSeq(src["spiketrains"], LAMBDA x : x.unit \in units)
             /\ \A c \in ContainerSet \ Derived : Coll(k, c) = << >>
             /\ Range(Coll(k, "spiketrains")) \subseteq Range(src["spiketrains"])
             /\ Range(Coll(k, "analogsignals")) \subseteq Range(src["analogsignals"])

\* an append to the spiketrains of a sub-segment that shares a spike train
\* with its source
C8_Witness ==
    /\ op = "append"
    /\ self # 1
    /\ arg[1] = "spiketrains"
    /\ Range(Coll(self, "spiketrains")) \cap Range(Coll(1, "spiketrains")) # { }
    /\ Len(Coll(self, "spiketrains")) > Len(Coll(1, "spiketrains"))

====
